---- MODULE Spec2Model ----
(***************************************************************************)
(* Connect Four engine (alphaBetaPruning_connect4.py): board model,        *)
(* heuristic evaluator, move generator and the alpha-beta search, the      *)
(* search modelled as the machine of its call frames.                      *)
(***************************************************************************)
EXTENDS Integers, Sequences, FiniteSets, TLC

COMPUTER == 2
HUMAN == 1
EMPTY == 0
DEPTH == 4
ROW_COUNT == 6
COLUMN_COUNT == 7

Rows == 0 .. (ROW_COUNT - 1)
Cols == 0 .. (COLUMN_COUNT - 1)

(***************************************************************************)
(* Numbers.  The engine compares Python ints as large as 10**20 + 1, the   *)
(* float 0.00001 and float("inf").  A number k * 10**20 + n + f * 10**-5   *)
(* with |n| + 1 < 10**20 is the triple <<k, n, f>>; the infinities are the *)
(* triples with k = 2 and k = -2, beyond every finite number that occurs.  *)
(* Order and equality of such numbers are those of the triples.            *)
(***************************************************************************)
Num(n) == <<0, n, 0>>
VIC == <<1, 0, 0>>
LOSS == <<-1, 0, 0>>
TIE == Num(0)
PosInf == <<2, 0, 0>>
NegInf == <<-2, 0, 0>>
Pred(x) == <<x[1], x[2] - 1, x[3]>>
Succ(x) == <<x[1], x[2] + 1, x[3]>>
Lt(x, y) ==
    \/ x[1] < y[1]
    \/ x[1] = y[1] /\ x[2] < y[2]
    \/ x[1] = y[1] /\ x[2] = y[2] /\ x[3] < y[3]
Gt(x, y) == Lt(y, x)
Ge(x, y) == ~Lt(x, y)
Le(x, y) == ~Lt(y, x)

create_board == [r \in Rows |-> [c \in Cols |-> EMPTY]]

(***************************************************************************)
(* Board model.  board[r][c] with row 0 the bottom row.                    *)
(***************************************************************************)
get_valid_columns(board) ==
    SelectSeq([i \in 1 .. COLUMN_COUNT |-> i - 1],
              LAMBDA col : board[ROW_COUNT - 1][col] = EMPTY)

get_next_row(board, col) ==
    IF \E row \in Rows : board[row][col] = EMPTY
    THEN CHOOSE row \in Rows :
            /\ board[row][col] = EMPTY
            /\ \A below \in 0 .. (row - 1) : board[below][col] # EMPTY
    ELSE -1

\* check_win with the horizontal scan one start column short.
check_win_short_rows(board, piece) ==
    \/ \E c \in 0 .. (COLUMN_COUNT - 5) : \E r \in 0 .. (ROW_COUNT - 1) :
          /\ board[r][c] = piece /\ board[r][c + 1] = piece
          /\ board[r][c + 2] = piece /\ board[r][c + 3] = piece
    \/ \E c \in 0 .. (COLUMN_COUNT - 1) : \E r \in 0 .. (ROW_COUNT - 4) :
          /\ board[r][c] = piece /\ board[r + 1][c] = piece
          /\ board[r + 2][c] = piece /\ board[r + 3][c] = piece
    \/ \E c \in 0 .. (COLUMN_COUNT - 4) : \E r \in 0 .. (ROW_COUNT - 4) :
          /\ board[r][c] = piece /\ board[r + 1][c + 1] = piece
          /\ board[r + 2][c + 2] = piece /\ board[r + 3][c + 3] = piece
    \/ \E c \in 0 .. (COLUMN_COUNT - 4) : \E r \in 3 .. (ROW_COUNT - 1) :
          /\ board[r][c] = piece /\ board[r - 1][c + 1] = piece
          /\ board[r - 2][c + 2] = piece /\ board[r - 3][c + 3] = piece

check_win(board, piece) ==
    \/ \E c \in 0 .. (COLUMN_COUNT - 4) : \E r \in 0 .. (ROW_COUNT - 1) :
          /\ board[r][c] = piece /\ board[r][c + 1] = piece
          /\ board[r][c + 2] = piece /\ board[r][c + 3] = piece
    \/ \E c \in 0 .. (COLUMN_COUNT - 1) : \E r \in 0 .. (ROW_COUNT - 4) :
          /\ board[r][c] = piece /\ board[r + 1][c] = piece
          /\ board[r + 2][c] = piece /\ board[r + 3][c] = piece
    \/ \E c \in 0 .. (COLUMN_COUNT - 4) : \E r \in 0 .. (ROW_COUNT - 4) :
          /\ board[r][c] = piece /\ board[r + 1][c + 1] = piece
          /\ board[r + 2][c + 2] = piece /\ board[r + 3][c + 3] = piece
    \/ \E c \in 0 .. (COLUMN_COUNT - 4) : \E r \in 3 .. (ROW_COUNT - 1) :
          /\ board[r][c] = piece /\ board[r - 1][c + 1] = piece
          /\ board[r - 2][c + 2] = piece /\ board[r - 3][c + 3] = piece

(***************************************************************************)
(* Evaluator.                                                              *)
(***************************************************************************)
\* score += ... over a loop: the sum of the terms, one per iteration.
RECURSIVE SumTo(_, _)
SumTo(terms, n) == IF n = 0 THEN 0 ELSE terms[n] + SumTo(terms, n - 1)

Sum(terms) == SumTo(terms, Len(terms))

\* np.count_nonzero(window == x)
count_nonzero(window, x) == Cardinality({i \in DOMAIN window : window[i] = x})

evaluate_window(window, piece) ==
    LET opp_piece == IF piece = COMPUTER THEN HUMAN ELSE COMPUTER
        piece_count == count_nonzero(window, piece)
        empty_count == count_nonzero(window, EMPTY)
        opp_count == count_nonzero(window, opp_piece)
        own == IF piece_count = 4 THEN 100
               ELSE IF piece_count = 3 /\ empty_count = 1 THEN 5
               ELSE IF piece_count = 2 /\ empty_count = 2 THEN 2
               ELSE 0
        opp == IF opp_count = 3 /\ empty_count = 1 THEN -50
               ELSE IF opp_count = 2 /\ empty_count = 2 THEN -3
               ELSE 0
    IN  own + opp

score_position(board, piece) ==
    LET center == COLUMN_COUNT \div 2
        center_count == count_nonzero([i \in 1 .. ROW_COUNT |-> board[i - 1][center]], piece)
        opp_piece == IF piece = COMPUTER THEN HUMAN ELSE COMPUTER
        bottom_row == [i \in 1 .. COLUMN_COUNT |-> board[0][i - 1]]
        opp_bottom_count == count_nonzero(bottom_row, opp_piece)
        bottom ==
            IF opp_bottom_count = 2
            THEN Sum([c1 \in 1 .. (COLUMN_COUNT - 3) |->
                     LET window == SubSeq(bottom_row, c1, c1 + 3)
                     IN  IF /\ count_nonzero(window, opp_piece) = 2
                            /\ count_nonzero(window, EMPTY) = 2
                         THEN -10 ELSE 0])
            ELSE 0
        \* r1 and c1 are the loop variables r and c plus 1
        horizontal ==
            Sum([r1 \in 1 .. ROW_COUNT |-> Sum([c1 \in 1 .. (COLUMN_COUNT - 3) |->
                evaluate_window([i \in 1 .. 4 |-> board[r1 - 1][c1 - 1 + i - 1]], piece)])])
        vertical ==
            Sum([c1 \in 1 .. COLUMN_COUNT |-> Sum([r1 \in 1 .. (ROW_COUNT - 3) |->
                evaluate_window([i \in 1 .. 4 |-> board[r1 - 1 + i - 1][c1 - 1]], piece)])])
        rising ==
            Sum([r1 \in 1 .. (ROW_COUNT - 3) |-> Sum([c1 \in 1 .. (COLUMN_COUNT - 3) |->
                evaluate_window([i \in 1 .. 4 |-> board[r1 - 1 + i - 1][c1 - 1 + i - 1]], piece)])])
        falling ==
            Sum([r1 \in 1 .. (ROW_COUNT - 3) |-> Sum([c1 \in 1 .. (COLUMN_COUNT - 3) |->
                evaluate_window([i \in 1 .. 4 |-> board[r1 - 1 + 3 - (i - 1)][c1 - 1 + i - 1]],
                                piece)])])
    IN  center_count * 6 + bottom + horizontal + vertical + rising + falling

(***************************************************************************)
(* Objects.  A numpy board is an object of the store `arrays`, named by    *)
(* its reference; a state list s is the tuple <<board reference, value,    *)
(* turn, empty cells>>, so the code's s[0] .. s[3] are s[1] .. s[4] here,  *)
(* and a child built by get_next carries the column played as s[5].        *)
(***************************************************************************)
Fresh(heap) ==
    CHOOSE id \in 0 .. Cardinality(DOMAIN heap) :
        /\ id \notin DOMAIN heap
        /\ \A j \in 0 .. (id - 1) : j \in DOMAIN heap

\* copy.deepcopy(s): a new list whose board is a new array with equal cells.
deepcopy(heap, s) ==
    LET id == Fresh(heap)
    IN  [heap |-> (id :> heap[s[1]]) @@ heap, s |-> [s EXCEPT ![1] = id]]

count_empty(board) ==
    Sum([r1 \in 1 .. ROW_COUNT |->
            count_nonzero([c1 \in 1 .. COLUMN_COUNT |-> board[r1 - 1][c1 - 1]], 0)])

\* The root value 0.00001.
Placeholder == <<0, 0, 1>>

create_state(heap, ref) ==
    LET empty_count == count_empty(heap[ref])
        whose_turn == COMPUTER
    IN  <<ref, Placeholder, whose_turn, empty_count>>

value(s) == s[2]

is_finished(s) == s[2] \in {LOSS, VIC, TIE} \/ s[4] = 0

is_hum_turn(s) == s[3] = HUMAN

\* The value make_move stores, from the board after the piece is placed.
evaluate_position(board, empty) ==
    IF check_win(board, COMPUTER) THEN VIC
    ELSE IF check_win(board, HUMAN) THEN LOSS
    ELSE IF empty = 0 THEN TIE
    ELSE Num(score_position(board, COMPUTER) - score_position(board, HUMAN))

\* make_move without the decrement of the empty-cell count.
make_move_keeps_count(heap, s, col) ==
    LET board == heap[s[1]]
        row == get_next_row(board, col)
    IN  IF row = -1
        THEN [heap |-> heap, s |-> s]
        ELSE LET placed == [board EXCEPT ![row][col] = s[3]]
                 empty == s[4]
                 turn == IF s[3] = HUMAN THEN COMPUTER ELSE HUMAN
             IN  [heap |-> [heap EXCEPT ![s[1]] = placed],
                  s |-> [s EXCEPT ![2] = evaluate_position(placed, empty),
                                  ![3] = turn,
                                  ![4] = empty]]

\* make_move changes the list s and the array s[0] in place: the result is
\* the store and the list after the call.
make_move(heap, s, col) ==
    LET board == heap[s[1]]
        row == get_next_row(board, col)
    IN  IF row = -1
        THEN [heap |-> heap, s |-> s]
        ELSE LET placed == [board EXCEPT ![row][col] = s[3]]
                 empty == s[4] - 1
                 turn == IF s[3] = HUMAN THEN COMPUTER ELSE HUMAN
             IN  [heap |-> [heap EXCEPT ![s[1]] = placed],
                  s |-> [s EXCEPT ![2] = evaluate_position(placed, empty),
                                  ![3] = turn,
                                  ![4] = empty]]

Abs(n) == IF n < 0 THEN -n ELSE n

\* sorted(cols, key=lambda x: abs(x - center)): a stable sort, each element
\* placed after the elements whose key is not larger.
RECURSIVE sorted(_, _)
sorted(cols, center) ==
    IF cols = <<>> THEN <<>>
    ELSE LET front == sorted(SubSeq(cols, 1, Len(cols) - 1), center)
             x == cols[Len(cols)]
             keep == SelectSeq(front, LAMBDA y : Abs(y - center) <= Abs(x - center))
             rest == SelectSeq(front, LAMBDA y : Abs(y - center) > Abs(x - center))
         IN  keep \o <<x>> \o rest

\* The legal columns left in scan order.
ordered_columns_unsorted(board) == get_valid_columns(board)

ordered_columns(board) ==
    LET valid_cols == get_valid_columns(board)
        center == COLUMN_COUNT \div 2
    IN  sorted(valid_cols, center)

\* copy.copy(s): a new list that shares the board of s.
state_copy_shallow(heap, s) == [heap |-> heap, s |-> s]

\* The copy get_next makes of s before it plays a column on it.
state_copy(heap, s) == deepcopy(heap, s)

\* The one element of a singleton; x \in {e} binds x to the value of e, so
\* that e is computed once however often x is used.
The(S) == CHOOSE x \in S : TRUE

\* for col in ordered_cols: cp is state_copy, mv the store and the list
\* after make_move(state_copy, col).
RECURSIVE get_next_loop(_, _, _, _)
get_next_loop(heap, s, ordered_cols, next_states) ==
    IF ordered_cols = <<>>
    THEN [heap |-> heap, next_states |-> next_states]
    ELSE The({get_next_loop(mv.heap, s, Tail(ordered_cols),
                            Append(next_states, Append(mv.s, Head(ordered_cols)))) :
                mv \in {make_move(cp.heap, cp.s, Head(ordered_cols)) :
                           cp \in {state_copy(heap, s)}}})

get_next(heap, s) == get_next_loop(heap, s, ordered_columns(heap[s[1]]), <<>>)

(***************************************************************************)
(* The caller's side (connect4.py): boards are built by dropping chips.    *)
(***************************************************************************)
is_valid_location(board, col) == board[ROW_COUNT - 1][col] = 0

get_next_open_row(board, col) ==
    CHOOSE r \in Rows :
        /\ board[r][col] = 0
        /\ \A below \in 0 .. (r - 1) : board[below][col] # 0

drop_chip(board, row, col, chip) == [board EXCEPT ![row][col] = chip]

RED_INT == 1
BLUE_INT == 2

\* "".join(list(map(str, line))): the string of the cells' decimal digits.
str(n) == <<"0", "1", "2">>[n + 1]

join(line) == [i \in 1 .. Len(line) |-> str(line[i])]

\* sub in string
contains(sub, string) ==
    \E i \in 1 .. (Len(string) - Len(sub) + 1) : SubSeq(string, i, i + Len(sub) - 1) = sub

\* board.diagonal(offset): the cells board[i][i + offset] inside the array.
diagonal(board, offset) ==
    LET first_row == IF offset < 0 THEN -offset ELSE 0
        first_col == IF offset < 0 THEN 0 ELSE offset
        rows_left == ROW_COUNT - first_row
        cols_left == COLUMN_COUNT - first_col
        length == IF rows_left < cols_left THEN rows_left ELSE cols_left
    IN  [i \in 1 .. length |-> board[first_row + i - 1][first_col + i - 1]]

\* np.flip(board, 1): the columns in reverse order.
flip(board) == [r \in Rows |-> [c \in Cols |-> board[r][COLUMN_COUNT - 1 - c]]]

game_is_won(board, chip) ==
    LET winning_Sequence == <<chip, chip, chip, chip>>
    IN  \/ \E r \in 0 .. (ROW_COUNT - 1) :
              contains(join(winning_Sequence),
                       join([i \in 1 .. COLUMN_COUNT |-> board[r][i - 1]]))
        \/ \E c \in 0 .. (COLUMN_COUNT - 1) :
              contains(join(winning_Sequence),
                       join([i \in 1 .. ROW_COUNT |-> board[i - 1][c]]))
        \/ \E offset \in -2 .. 3 :
              contains(join(winning_Sequence), join(diagonal(board, offset)))
        \/ \E offset \in -2 .. 3 :
              contains(join(winning_Sequence), join(diagonal(flip(board), offset)))

get_valid_locations(board) ==
    SelectSeq([i \in 1 .. COLUMN_COUNT |-> i - 1], LAMBDA col : is_valid_location(board, col))

\* Python's None, where a column is expected.
None == -1

\* The board should_win and should_block try a column on: a copy of board
\* with chip dropped in col.
temp_board(board, col, chip) == drop_chip(board, get_next_open_row(board, col), col, chip)

should_win(board, piece) ==
    LET wins == SelectSeq(get_valid_locations(board),
                          LAMBDA col : game_is_won(temp_board(board, col, piece), piece))
    IN  IF wins = <<>> THEN None ELSE Head(wins)

\* The list blocks_needed of MoveSmartAI.
blocks_needed(board, color) ==
    LET opponent == IF color = BLUE_INT THEN RED_INT ELSE BLUE_INT
    IN  SelectSeq(get_valid_locations(board),
                  LAMBDA col : game_is_won(temp_board(board, col, opponent), opponent))

\* The column MoveSmartAI plays before it would call MoveAI, None when it
\* goes on to MoveAI.
MoveSmartAI_shortcut(board, color) ==
    LET win_col == should_win(board, color)
    IN  IF win_col # None THEN win_col
        ELSE IF Len(blocks_needed(board, color)) = 1 THEN blocks_needed(board, color)[1]
        ELSE None

\* The board after the players have dropped chips in the columns `moves` in
\* turn, `chip` moving first; every column must be open when it is played.
RECURSIVE Play(_, _, _)
Play(board, chip, moves) ==
    IF moves = <<>> THEN board
    ELSE LET col == Head(moves)
         IN  Play(drop_chip(board, get_next_open_row(board, col), col, chip),
                  IF chip = HUMAN THEN COMPUTER ELSE HUMAN, Tail(moves))

RECURSIVE Playable(_, _)
Playable(board, moves) ==
    \/ moves = <<>>
    \/ /\ is_valid_location(board, Head(moves))
       /\ Playable(drop_chip(board, get_next_open_row(board, Head(moves)),
                             Head(moves), HUMAN), Tail(moves))

\* The engine is asked when it is the computer's turn: the mover of the
\* first of n plies is the computer when n is even, the human when n is odd.
BoardAfter(moves) ==
    Play(create_board, IF Len(moves) % 2 = 0 THEN COMPUTER ELSE HUMAN, moves)

MaxPlies == 0

RECURSIVE MoveLists(_)
MoveLists(n) ==
    IF n = 0 THEN {<<>>}
    ELSE {Append(m, c) : m \in MoveLists(n - 1), c \in Cols}

OpeningMoves == UNION {MoveLists(n) : n \in 0 .. MaxPlies}

\* A game of 42 plies that fills the board with no four-in-a-row.
DrawnGame ==
    <<3, 3, 3, 3, 3, 3, 2, 2, 2, 2, 2, 2, 6, 4, 4, 4, 4, 4, 4, 1, 1,
      1, 1, 1, 1, 5, 5, 5, 5, 5, 5, 0, 0, 0, 0, 0, 0, 6, 6, 6, 6, 6>>

\* Positions of games in progress, the computer to move: one where the
\* computer can complete a bottom-row four and can also build a double
\* threat, one where the human threatens a bottom-row four, one where the
\* human has three in the center column, one early position, one with the
\* center column and column 0 full, and the full board.  The first is
\* reached in play when the computer moves first and MoveSmartAI chooses
\* each of its moves: the computer has two winning columns there.
Positions == {
    <<3, 0, 4, 0, 2, 2>>,
    <<4, 4, 6, 6, 3, 0>>,
    <<6, 4, 0, 2, 0, 5>>,
    <<3, 2, 3, 2, 3>>,
    <<3, 3, 2, 4>>,
    <<3, 3, 3, 3, 3, 3, 0, 0, 0, 0, 0, 0>>,
    DrawnGame }

RootBoards ==
    {BoardAfter(m) : m \in {o \in OpeningMoves : Playable(create_board, o)} \cup Positions}

(***************************************************************************)
(* The search as the machine of its call frames.  stack[Len(stack)] is the *)
(* running call of abmax or abmin; a frame holds the call's arguments and  *)
(* locals and the place the call has reached:                              *)
(*   "entry"   before the base-case test,                                  *)
(*   "loop"    at the head of the loop over next_states, child i next,     *)
(*   "return"  returning ret.                                              *)
(***************************************************************************)
VARIABLES
    arrays,     \* the store of boards; reference 0 is the caller's board
    given,      \* the caller's board as it was when go was called
    stack,      \* the call frames of abmax and abmin
    pc,         \* "idle": go not yet called; "search"; "done": go returned
    result      \* go's local result, the list abmax returned; go returns result[1]

vars == <<arrays, given, stack, pc, result>>

NoResult == <<>>

\* What go returned: result[1] of the code.
go_returned == result[2]

\* tmps is the history of the call: the values tmp[0] its loop has received
\* from the children so far, in order.  The code keeps only the last one.
Frame(fn, s, d, a, b) ==
    [fn |-> fn, s |-> s, d |-> d, a |-> a, b |-> b, v |-> Num(0), best_col |-> 0,
     next_states |-> <<>>, i |-> 1, at |-> "entry", ret |-> <<Num(0), 0>>,
     tmps |-> <<>>]

Top == stack[Len(stack)]

SetTop(fr) == [stack EXCEPT ![Len(stack)] = fr]

\* The boards some list still refers to; an array nothing refers to is
\* released.
Referenced(frames) ==
    {0} \cup {frames[k].s[1] : k \in 1 .. Len(frames)}
        \cup UNION {{frames[k].next_states[j][1] : j \in 1 .. Len(frames[k].next_states)} :
                    k \in 1 .. Len(frames)}

Release(heap, frames) == [id \in DOMAIN heap \cap Referenced(frames) |-> heap[id]]

Init ==
    /\ given \in RootBoards
    /\ arrays = (0 :> given)
    /\ stack = <<>>
    /\ pc = "idle"
    /\ result = NoResult

\* go: state = create_state(board); abmax(state, DEPTH, LOSS-1, VIC+1)
go_call ==
    /\ pc = "idle"
    /\ stack' = <<Frame("abmax", create_state(arrays, 0), DEPTH, Pred(LOSS), Succ(VIC))>>
    /\ pc' = "search"
    /\ UNCHANGED <<arrays, given, result>>

\* go: return result[1]
go_return ==
    /\ pc = "search"
    /\ Len(stack) = 1
    /\ Top.at = "return"
    /\ result' = Top.ret
    /\ stack' = <<>>
    /\ arrays' = Release(arrays, <<>>)
    /\ pc' = "done"
    /\ UNCHANGED given

\* if d == 0 or is_finished(s): return [value(s), 0]
base_case(fr) == fr.d = 0 \/ is_finished(fr.s)

ab_base(fn) ==
    /\ pc = "search"
    /\ Top.fn = fn
    /\ Top.at = "entry"
    /\ base_case(Top)
    /\ stack' = SetTop([Top EXCEPT !.at = "return", !.ret = <<value(Top.s), 0>>])
    /\ UNCHANGED <<arrays, given, pc, result>>

\* v = -inf (abmax) or inf (abmin); best_col = 0; next_states = get_next(s)
ab_expand(fn) ==
    /\ pc = "search"
    /\ Top.fn = fn
    /\ Top.at = "entry"
    /\ ~base_case(Top)
    /\ \E nx \in {get_next(arrays, Top.s)} :
           /\ arrays' = nx.heap
           /\ stack' = SetTop([Top EXCEPT !.at = "loop",
                                          !.v = IF fn = "abmax" THEN NegInf ELSE PosInf,
                                          !.best_col = 0,
                                          !.next_states = nx.next_states,
                                          !.i = 1])
    /\ UNCHANGED <<given, pc, result>>

col_played(state) == IF Len(state) > 4 THEN state[Len(state)] ELSE 0

\* tmp = abmin(copy.deepcopy(state[:4]), d-1, a, b), and the same of abmax
ab_call(fn) ==
    /\ pc = "search"
    /\ Top.fn = fn
    /\ Top.at = "loop"
    /\ Top.i <= Len(Top.next_states)
    /\ LET state == Top.next_states[Top.i]
           cp == deepcopy(arrays, SubSeq(state, 1, 4))
           callee == IF fn = "abmax" THEN "abmin" ELSE "abmax"
       IN  /\ arrays' = cp.heap
           /\ stack' = Append(stack, Frame(callee, cp.s, Top.d - 1, Top.a, Top.b))
    /\ UNCHANGED <<given, pc, result>>

\* The loop is over: return [v, best_col]
ab_end(fn) ==
    /\ pc = "search"
    /\ Top.fn = fn
    /\ Top.at = "loop"
    /\ Top.i > Len(Top.next_states)
    /\ stack' = SetTop([Top EXCEPT !.at = "return", !.ret = <<Top.v, Top.best_col>>])
    /\ UNCHANGED <<arrays, given, pc, result>>

\* abmax with best_col left at its initial value.
abmax_body_keeps_best_col(fr, tmp) ==
    LET played == IF Len(fr.next_states[fr.i]) > 4 THEN fr.next_states[fr.i][5] ELSE 0
        v == IF Gt(tmp[1], fr.v) THEN tmp[1] ELSE fr.v
    IN  IF Ge(v, fr.b)
        THEN [fr EXCEPT !.v = v, !.at = "return", !.ret = <<v, played>>]
        ELSE [fr EXCEPT !.v = v,
                        !.a = IF Gt(v, fr.a) THEN v ELSE fr.a,
                        !.i = fr.i + 1]

\* abmin with the cutoff tested against beta.
abmin_body_cut_on_beta(fr, tmp) ==
    LET played == IF Len(fr.next_states[fr.i]) > 4 THEN fr.next_states[fr.i][5] ELSE 0
        v == IF Lt(tmp[1], fr.v) THEN tmp[1] ELSE fr.v
        best_col == IF Lt(tmp[1], fr.v) THEN played ELSE fr.best_col
    IN  IF Le(v, fr.b)
        THEN [fr EXCEPT !.v = v, !.best_col = best_col,
                        !.at = "return", !.ret = <<v, played>>]
        ELSE [fr EXCEPT !.v = v, !.best_col = best_col,
                        !.b = IF Lt(v, fr.b) THEN v ELSE fr.b,
                        !.i = fr.i + 1]

\* abmax that also takes a child whose value equals the best so far.
abmax_body_takes_equal(fr, tmp) ==
    LET played == IF Len(fr.next_states[fr.i]) > 4 THEN fr.next_states[fr.i][5] ELSE 0
        v == IF Ge(tmp[1], fr.v) THEN tmp[1] ELSE fr.v
        best_col == IF Ge(tmp[1], fr.v) THEN played ELSE fr.best_col
    IN  IF Ge(v, fr.b)
        THEN [fr EXCEPT !.v = v, !.best_col = best_col,
                        !.at = "return", !.ret = <<v, played>>]
        ELSE [fr EXCEPT !.v = v, !.best_col = best_col,
                        !.a = IF Gt(v, fr.a) THEN v ELSE fr.a,
                        !.i = fr.i + 1]

\* abmax after tmp = abmin(...): the rest of the loop body.
abmax_body(fr, tmp) ==
    LET played == col_played(fr.next_states[fr.i])
        v == IF Gt(tmp[1], fr.v) THEN tmp[1] ELSE fr.v
        best_col == IF Gt(tmp[1], fr.v) THEN played ELSE fr.best_col
    IN  IF Ge(v, fr.b)
        THEN [fr EXCEPT !.v = v, !.best_col = best_col,
                        !.at = "return", !.ret = <<v, played>>]
        ELSE [fr EXCEPT !.v = v, !.best_col = best_col,
                        !.a = IF Gt(v, fr.a) THEN v ELSE fr.a,
                        !.i = fr.i + 1]

\* abmin after tmp = abmax(...): the rest of the loop body.
abmin_body(fr, tmp) ==
    LET played == col_played(fr.next_states[fr.i])
        v == IF Lt(tmp[1], fr.v) THEN tmp[1] ELSE fr.v
        best_col == IF Lt(tmp[1], fr.v) THEN played ELSE fr.best_col
    IN  IF Le(v, fr.a)
        THEN [fr EXCEPT !.v = v, !.best_col = best_col,
                        !.at = "return", !.ret = <<v, played>>]
        ELSE [fr EXCEPT !.v = v, !.best_col = best_col,
                        !.b = IF Lt(v, fr.b) THEN v ELSE fr.b,
                        !.i = fr.i + 1]

\* The callee returns to the caller fn, which goes on with its loop body.
ab_resume(fn) ==
    /\ pc = "search"
    /\ Len(stack) > 1
    /\ Top.at = "return"
    /\ stack[Len(stack) - 1].fn = fn
    /\ LET caller == stack[Len(stack) - 1]
           body == IF fn = "abmax" THEN abmax_body(caller, Top.ret)
                   ELSE abmin_body(caller, Top.ret)
           after == [body EXCEPT !.tmps = Append(caller.tmps, Top.ret[1])]
           frames == Append(SubSeq(stack, 1, Len(stack) - 2), after)
       IN  /\ stack' = frames
           /\ arrays' = Release(arrays, frames)
    /\ UNCHANGED <<given, pc, result>>

abmax ==
    \/ ab_base("abmax")
    \/ ab_expand("abmax")
    \/ ab_call("abmax")
    \/ ab_resume("abmax")
    \/ ab_end("abmax")

abmin ==
    \/ ab_base("abmin")
    \/ ab_expand("abmin")
    \/ ab_call("abmin")
    \/ ab_resume("abmin")
    \/ ab_end("abmin")

Next == go_call \/ abmax \/ abmin \/ go_return

Spec == Init /\ [][Next]_vars

(***************************************************************************)
(* check_win on its own, on grids that need not come from a game: a run of *)
(* up to MaxRun cells of one piece laid from any cell in any of the four   *)
(* directions, cut at the border, over the empty grid and over the full    *)
(* grid of the drawn game.                                                 *)
(***************************************************************************)
MaxRun == 4

RunCells(r, c, dr, dc, n) ==
    {<<r + k * dr, c + k * dc>> : k \in 0 .. (n - 1)} \cap (Rows \X Cols)

Overlay(base, cells, piece) ==
    [r \in Rows |-> [c \in Cols |-> IF <<r, c>> \in cells THEN piece ELSE base[r][c]]]

WinGrids ==
    {Overlay(base, RunCells(r, c, dir[1], dir[2], n), piece) :
        base \in {create_board, BoardAfter(DrawnGame)},
        r \in Rows, c \in Cols,
        dir \in {<<0, 1>>, <<1, 0>>, <<1, 1>>, <<1, -1>>},
        n \in 1 .. MaxRun, piece \in {HUMAN, COMPUTER}}

InitWin ==
    /\ given \in WinGrids
    /\ arrays = (0 :> given)
    /\ stack = <<>>
    /\ pc = "idle"
    /\ result = NoResult

\* The two calls of check_win that make_move makes on a board, the answers
\* kept by piece: result[HUMAN], result[COMPUTER].
check_wins ==
    /\ pc = "idle"
    /\ result' = <<check_win(arrays[0], HUMAN), check_win(arrays[0], COMPUTER)>>
    /\ pc' = "checked"
    /\ UNCHANGED <<arrays, given, stack>>

NextWin == check_wins

SpecWin == InitWin /\ [][NextWin]_vars

(***************************************************************************)
(* Notions the properties are stated in.                                   *)
(***************************************************************************)
Directions == {<<0, 1>>, <<1, 0>>, <<1, 1>>, <<1, -1>>}

\* Four cells owned by piece, contiguous in a row, a column or a diagonal.
HasFour(board, piece) ==
    \E r \in Rows, c \in Cols, dir \in Directions :
        \A k \in 0 .. 3 :
            /\ r + k * dir[1] \in Rows
            /\ c + k * dir[2] \in Cols
            /\ board[r + k * dir[1]][c + k * dir[2]] = piece

NoFour(board) == ~HasFour(board, HUMAN) /\ ~HasFour(board, COMPUTER)

LegalColumns(board) == {c \in Cols : board[ROW_COUNT - 1][c] = EMPTY}

LowestEmpty(board, c) ==
    CHOOSE r \in Rows : board[r][c] = EMPTY /\ \A q \in 0 .. (r - 1) : board[q][c] # EMPTY

\* The legal columns where a drop of piece completes a four-in-a-row.
WinningColumns(board, piece) ==
    {c \in LegalColumns(board) :
        HasFour([board EXCEPT ![LowestEmpty(board, c)][c] = piece], piece)}

EmptyCells(board) == {<<r, c>> \in Rows \X Cols : board[r][c] = EMPTY}

\* C1: on a board with an empty cell, go returns a column of 0..6 whose
\* topmost cell is Empty.
C1_ReturnsLegalColumn ==
    (pc = "done" /\ EmptyCells(given) # {})
        => (go_returned \in Cols /\ given[ROW_COUNT - 1][go_returned] = EMPTY)

\* C1 witness: go has returned on a board whose column 0, the initial
\* best_col, and whose center column are full.
C1_Witness ==
    /\ pc = "done"
    /\ EmptyCells(given) # {}
    /\ given[ROW_COUNT - 1][0] # EMPTY
    /\ given[ROW_COUNT - 1][3] # EMPTY
    /\ go_returned \in LegalColumns(given)

\* C2: when exactly one legal column completes a four-in-a-row for the
\* computer on a board with none, go returns that column.
C2_ReturnsWinningColumn ==
    (/\ pc = "done"
     /\ NoFour(given)
     /\ Cardinality(WinningColumns(given, COMPUTER)) = 1)
        => go_returned \in WinningColumns(given, COMPUTER)

\* C3: when the computer has no winning column and exactly one column
\* completes a four-in-a-row for the human, go returns that column.
C3_ReturnsBlockingColumn ==
    (/\ pc = "done"
     /\ NoFour(given)
     /\ WinningColumns(given, COMPUTER) = {}
     /\ Cardinality(WinningColumns(given, HUMAN)) = 1)
        => go_returned \in WinningColumns(given, HUMAN)

\* C4: on the empty board go returns column 3.
C4_OpeningIsCenter ==
    (pc = "done" /\ given = create_board) => go_returned = 3

\* C4 witness: go has returned on the empty board.
C4_Witness == pc = "done" /\ given = create_board /\ go_returned = 3

\* C6: on a board with no legal column go does not return a column index.
C6_FullBoardFails ==
    (pc = "done" /\ LegalColumns(given) = {}) => go_returned \notin Cols

\* C5: the caller's board keeps the cells it had when go was called, and
\* no two lists of the search refer to the same board: every board a move
\* is played on is a copy of its own.
C5_CallerBoardUnchanged ==
    /\ arrays[0] = given
    /\ pc = "search" =>
          Cardinality(Referenced(stack))
              = Len(stack) + Sum([k \in 1 .. Len(stack) |-> Len(stack[k].next_states)])

\* C5 witness: go has returned from a search that went to the full depth on
\* a board with pieces on it.
C5_Witness ==
    /\ pc = "done"
    /\ given # create_board
    /\ EmptyCells(given) # {}
    /\ arrays = (0 :> given)

Terminal(board) ==
    HasFour(board, HUMAN) \/ HasFour(board, COMPUTER) \/ EmptyCells(board) = {}

\* C8: for a state made by a move, is_finished holds exactly when the grid
\* has a four-in-a-row or no empty cell, and the call returns without
\* expanding children exactly when d is 0 or the state is terminal so.
C8_FinishedIffTerminal ==
    (pc = "search" /\ Len(stack) > 1 /\ Top.at = "entry")
        => /\ is_finished(Top.s) <=> Terminal(arrays[Top.s[1]])
           /\ base_case(Top) <=> (Top.d = 0 \/ Terminal(arrays[Top.s[1]]))

\* Depth-limited minimax with no alpha and beta: the children of get_next
\* in their order, the base case of abmax and abmin, and a child replacing
\* the best one only when strictly better.
RECURSIVE Minimax(_, _, _, _)
RECURSIVE MinimaxLoop(_, _, _, _, _, _, _)
Minimax(fn, heap, s, d) ==
    IF d = 0 \/ is_finished(s) THEN <<value(s), 0>>
    ELSE The({MinimaxLoop(fn, nx.heap, nx.next_states, d, 1,
                          IF fn = "abmax" THEN NegInf ELSE PosInf, 0) :
                nx \in {get_next(heap, s)}})
MinimaxLoop(fn, heap, states, d, i, v, best) ==
    IF i > Len(states) THEN <<v, best>>
    ELSE The({LET better == IF fn = "abmax" THEN Gt(tmp[1], v) ELSE Lt(tmp[1], v)
              IN  MinimaxLoop(fn, heap, states, d, i + 1,
                              IF better THEN tmp[1] ELSE v,
                              IF better THEN states[i][5] ELSE best) :
                tmp \in {Minimax(IF fn = "abmax" THEN "abmin" ELSE "abmax",
                                 heap, SubSeq(states[i], 1, 4), d - 1)}})

\* C9: the list abmax(root, DEPTH, LOSS-1, VIC+1) returns, value and column,
\* is the list the minimax without cutoffs returns.
C9_PruningKeepsDecision ==
    pc = "done" =>
        result = Minimax("abmax", (0 :> given), create_state((0 :> given), 0), DEPTH)

\* C9 witness: go has returned from a search in which a call of abmin was
\* cut off, on a board with legal columns.
C9_Witness ==
    /\ pc = "done"
    /\ given = BoardAfter(<<4, 4, 6, 6, 3, 0>>)
    /\ result = <<VIC, 2>>

\* C10: the stored empty-cell count of the running call's state and of
\* every child get_next built is the number of Empty cells of its grid, and
\* each child has one empty cell fewer than its parent.
C10_EmptyCountExact ==
    pc = "search" =>
        /\ Top.s[4] = Cardinality(EmptyCells(arrays[Top.s[1]]))
        /\ \A j \in 1 .. Len(Top.next_states) :
              /\ Top.next_states[j][4] = Cardinality(EmptyCells(arrays[Top.next_states[j][1]]))
              /\ Top.next_states[j][4] = Top.s[4] - 1

\* C10 witness: a call at the deepest expanded level has just built seven
\* children.
C10_Witness ==
    /\ pc = "search"
    /\ Len(stack) = DEPTH
    /\ Top.at = "loop"
    /\ Len(Top.next_states) = COLUMN_COUNT
    /\ Top.next_states[1][4] = Cardinality(EmptyCells(given)) - DEPTH

\* C7: check_win(board, p) is true exactly when four cells owned by p are
\* contiguous in a row, a column, a rising or a falling diagonal.
C7_CheckWinIffFour ==
    pc = "checked" =>
        \A piece \in {HUMAN, COMPUTER} : result[piece] <=> HasFour(given, piece)

\* C7 witness: check_win has answered on a full grid where the computer has
\* a four-in-a-row and the human has none.
C7_Witness ==
    /\ pc = "checked"
    /\ EmptyCells(given) = {}
    /\ result = <<FALSE, TRUE>>

\* The columns from the center outwards, the lower index first at equal
\* distance.
CenterFirst == <<3, 2, 4, 1, 5, 0, 6>>

\* The index of the first child whose returned value is val, 0 if none.
FirstChildWith(tmps, val) ==
    IF \E j \in 1 .. Len(tmps) : tmps[j] = val
    THEN CHOOSE j \in 1 .. Len(tmps) :
             /\ tmps[j] = val
             /\ \A q \in 1 .. (j - 1) : tmps[q] # val
    ELSE 0

\* C11: in every call of abmax or abmin past its base-case test, the
\* children are in the order of CenterFirst restricted to the legal columns
\* of the call's board; the best column kept in the loop, and the column the
\* call returns at the end of the loop or at a cutoff, is the column of the
\* first child whose returned value equals the call's value.
C11_FirstBestChildKept ==
    pc = "search" =>
        \A k \in 1 .. Len(stack) :
            LET fr == stack[k]
                first == FirstChildWith(fr.tmps, IF fr.at = "return" THEN fr.ret[1] ELSE fr.v)
            IN  (fr.at # "entry" /\ ~base_case(fr)) =>
                    /\ [j \in 1 .. Len(fr.next_states) |-> fr.next_states[j][5]]
                           = SelectSeq(CenterFirst,
                                       LAMBDA c : c \in LegalColumns(arrays[fr.s[1]]))
                    /\ fr.tmps # <<>> =>
                           /\ first # 0
                           /\ fr.at = "loop" => fr.best_col = fr.next_states[first][5]
                           /\ fr.at = "return" => fr.ret[2] = fr.next_states[first][5]

\* C11 witness: a call returns at a cutoff, after its second child or a
\* later one, to a caller that has kept the first of two children of equal
\* value.
C11_Witness ==
    /\ pc = "search"
    /\ Len(stack) > 1
    /\ Top.at = "return"
    /\ Len(Top.tmps) >= 2
    /\ Len(Top.tmps) < Len(Top.next_states)
    /\ LET caller == stack[Len(stack) - 1]
       IN  \E j \in 1 .. Len(caller.tmps) : \E q \in 1 .. (j - 1) :
               /\ caller.tmps[q] = caller.v
               /\ caller.tmps[j] = caller.v
               /\ caller.best_col = caller.next_states[q][5]

\* The game goes on: main's loop has not ended on this board.
GameGoesOn(board) ==
    /\ ~game_is_won(board, RED_INT)
    /\ ~game_is_won(board, BLUE_INT)
    /\ get_valid_locations(board) # <<>>

\* C12: on a board of a game that goes on where MoveSmartAI plays a column
\* without calling MoveAI (a column wins at once for the computer, or
\* exactly one column would win at once for the human), that column is the
\* column go(board) returns.
C12_ShortcutMatchesSearch ==
    (/\ pc = "done"
     /\ GameGoesOn(given)
     /\ MoveSmartAI_shortcut(given, BLUE_INT) # None)
        => go_returned = MoveSmartAI_shortcut(given, BLUE_INT)

====
